---- MODULE Spec2Model ----
(***************************************************************************)
(* Model of the weather dashboard's refresh / alert pipeline:              *)
(*   basic-ui-setup.py            WeatherApp state, load_initial_data,     *)
(*                                refresh_data, _load_data_background,     *)
(*                                _update_ui_with_data, the two queries    *)
(*   interactive-components-ux.py on_city_changed, start_auto_refresh,     *)
(*                                update_status, show_error,               *)
(*                                PreferencesDialog                        *)
(*   weather-alerts-notifs.py     WeatherAlertsManager, enhance_main_app   *)
(*                                                                         *)
(* Strings the program splits or parses are sequences of one-character     *)
(* strings; floats are integers (every threshold of the program is an      *)
(* integer value); a dict is a function whose DOMAIN is its set of keys.   *)
(***************************************************************************)
EXTENDS Integers, Sequences, FiniteSets, Bags, TLC

\* ------------------------------------------------------------------------
\* Bounds of the model
\* ------------------------------------------------------------------------

\* workers running plus callbacks queued by root.after(0, ...) at any time
MaxInFlight == 2

\* longest text typed into the refresh-interval entry of the dialog
MaxTextLen == 2

\* ------------------------------------------------------------------------
\* Python values
\* ------------------------------------------------------------------------

\* None for a str-valued attribute (falsy, like the empty string)
None == <<>>

\* None for a dict-valued attribute (falsy, like the empty dict)
NoData == [none |-> TRUE]

\* dict.get(key, default)
Get(d, key, default) == IF key \in DOMAIN d THEN d[key] ELSE default

\* truthiness of a dict-or-None value
Truthy(d) == d # NoData

\* ------------------------------------------------------------------------
\* str.split(', ') and the selector built by the city query
\* ------------------------------------------------------------------------

Sep == <<",", " ">>

\* s[i:] starts with the separator
SepAt(s, i) == i + 1 <= Len(s) /\ s[i] = Sep[1] /\ s[i + 1] = Sep[2]

RECURSIVE SplitFrom(_, _, _)
\* the parts of s[i:] given that cur is the part read so far
SplitFrom(s, i, cur) ==
    IF i > Len(s) THEN <<cur>>
    ELSE IF SepAt(s, i) THEN <<cur>> \o SplitFrom(s, i + 2, <<>>)
    ELSE SplitFrom(s, i + 1, Append(cur, s[i]))

\* s.split(', ')
Split(s) == SplitFrom(s, 1, <<>>)

\* city_parts[0], city_parts[1] if len(city_parts) > 1 else ''
ParseSelector(selector) ==
    LET city_parts == Split(selector)
    IN  <<city_parts[1], IF Len(city_parts) > 1 THEN city_parts[2] ELSE <<>>>>

\* city || ', ' || country
Selector(city, country) == city \o Sep \o country

\* ------------------------------------------------------------------------
\* ORDER BY city: strings compared character by character
\* ------------------------------------------------------------------------

\* the characters of the model in code-point order
Chars == <<" ", ",", "B", "I", "P", "R", "S", "T", "U", "a", "i", "o", "r", "s", "x">>

Code(c) == CHOOSE i \in 1..Len(Chars) : Chars[i] = c

RECURSIVE StrLeq(_, _)
StrLeq(a, b) ==
    IF a = <<>> THEN TRUE
    ELSE IF b = <<>> THEN FALSE
    ELSE IF Head(a) = Head(b) THEN StrLeq(Tail(a), Tail(b))
    ELSE Code(Head(a)) < Code(Head(b))

\* ------------------------------------------------------------------------
\* The external store
\* ------------------------------------------------------------------------

Rio == <<"R", "i", "o">>
Pisa == <<"P", "i", "s", "a">>
\* a city whose name contains the separator
ParisTX == <<"P", "a", "r", "i", "s", ",", " ", "x">>
BR == <<"B", "R">>
IT == <<"I", "T">>
US == <<"U", "S">>

\* the (city, country) pairs a weather_readings table may hold
CityPairs == {<<Pisa, IT>>, <<Rio, BR>>, <<ParisTX, US>>}

\* a row of processed_weather_data as the dict built by dict(zip(columns, row))
Row(city, country, timestamp, temperature, wind_speed, pressure, weather_severity) ==
    [city |-> city, country |-> country, timestamp |-> timestamp,
     temperature |-> temperature, weather_description |-> "clear sky",
     feels_like |-> temperature, humidity |-> 50, pressure |-> pressure,
     wind_speed |-> wind_speed, weather_severity |-> weather_severity]

\* the dict d without key k
Without(d, k) == [c \in DOMAIN d \ {k} |-> d[c]]

\* the rows the ingestion process writes to processed_weather_data, in time
Rows ==
    {Row(Pisa, IT, 1, 20, 5, 1013, 10),
     Without(Row(Rio, BR, 1, 20, 20, 1013, 10), "weather_severity"),
     Row(ParisTX, US, 1, 20, 5, 1013, 10),
     Row(Pisa, IT, 2, 36, 20, 970, 80),
     Without(Row(Rio, BR, 2, -11, 5, 1013, 10), "humidity")}

\* the times at which the table is looked at: before and after each row
Timestamps == {0} \cup {r.timestamp : r \in Rows}

\* the processed_weather_data table once the rows up to timestamp t are written
StoreAt(t) == {r \in Rows : r.timestamp <= t}

\* ------------------------------------------------------------------------
\* WeatherAlertsManager
\* ------------------------------------------------------------------------

alert_thresholds ==
    [high_temperature |-> 35, low_temperature |-> -10, high_wind_speed |-> 15,
     low_pressure |-> 980, high_severity |-> 70]

\* an alert record; the message is its text and the value formatted into it
Alert(type, severity, title, text, value, icon) ==
    [type |-> type, severity |-> severity, title |-> title,
     message |-> <<text, value>>, icon |-> icon]

\* TemperatureAlerts with inclusive comparisons
TemperatureAlerts_inclusive(temp) ==
    IF temp >= alert_thresholds.high_temperature
    THEN <<Alert("temperature", "warning", "High Temperature Alert",
                 "Temperature is very high", temp, "fire")>>
    ELSE IF temp <= alert_thresholds.low_temperature
    THEN <<Alert("temperature", "warning", "Low Temperature Alert",
                 "Temperature is very low", temp, "cold")>>
    ELSE <<>>

TemperatureAlerts(temp) ==
    IF temp > alert_thresholds.high_temperature
    THEN <<Alert("temperature", "warning", "High Temperature Alert",
                 "Temperature is very high", temp, "fire")>>
    ELSE IF temp < alert_thresholds.low_temperature
    THEN <<Alert("temperature", "warning", "Low Temperature Alert",
                 "Temperature is very low", temp, "cold")>>
    ELSE <<>>

WindAlerts(wind_speed) ==
    IF wind_speed > alert_thresholds.high_wind_speed
    THEN <<Alert("wind", "caution", "High Wind Alert",
                 "Strong winds detected", wind_speed, "wind")>>
    ELSE <<>>

PressureAlerts(pressure) ==
    IF pressure < alert_thresholds.low_pressure
    THEN <<Alert("pressure", "watch", "Low Pressure Alert",
                 "Low pressure system detected", pressure, "storm")>>
    ELSE <<>>

SeverityAlerts(severity) ==
    IF severity > alert_thresholds.high_severity
    THEN <<Alert("severity", "warning", "Severe Weather Alert",
                 "High weather severity index", severity, "warning")>>
    ELSE <<>>

\* AlertDefaults with 0 as the default of every key
AlertDefaults_zero ==
    [temperature |-> 0, wind_speed |-> 0, pressure |-> 0, weather_severity |-> 0]

\* the defaults check_weather_alerts substitutes for missing keys
AlertDefaults ==
    [temperature |-> 0, wind_speed |-> 0, pressure |-> 1013, weather_severity |-> 0]

\* check_weather_alerts with the pressure check ahead of the wind check
check_weather_alerts_pressure_first(weather_data) ==
    TemperatureAlerts(Get(weather_data, "temperature", AlertDefaults.temperature))
    \o PressureAlerts(Get(weather_data, "pressure", AlertDefaults.pressure))
    \o WindAlerts(Get(weather_data, "wind_speed", AlertDefaults.wind_speed))
    \o SeverityAlerts(Get(weather_data, "weather_severity", AlertDefaults.weather_severity))

\* the list check_weather_alerts builds, stores in active_alerts and returns
check_weather_alerts(weather_data) ==
    TemperatureAlerts(Get(weather_data, "temperature", AlertDefaults.temperature))
    \o WindAlerts(Get(weather_data, "wind_speed", AlertDefaults.wind_speed))
    \o PressureAlerts(Get(weather_data, "pressure", AlertDefaults.pressure))
    \o SeverityAlerts(Get(weather_data, "weather_severity", AlertDefaults.weather_severity))

\* ------------------------------------------------------------------------
\* int(text) of the refresh-interval entry
\* ------------------------------------------------------------------------

Digits == {"0", "1"}

DigitValue(c) == IF c = "1" THEN 1 ELSE 0

\* the characters typed into the entry
TextChars == {"0", "1", "-", "a"}

\* the texts the entry may hold when Apply is pressed
IntervalTexts == UNION {[1..n -> TextChars] : n \in 0..MaxTextLen}

RECURSIVE DigitsValue(_)
DigitsValue(ds) ==
    IF ds = <<>> THEN 0
    ELSE 10 * DigitsValue(SubSeq(ds, 1, Len(ds) - 1)) + DigitValue(ds[Len(ds)])

\* int(text): an optional sign and at least one digit, ValueError otherwise
ParseInt(text) ==
    LET negative == text # <<>> /\ Head(text) = "-"
        ds == IF negative THEN Tail(text) ELSE text
    IN  IF ds # <<>> /\ \A i \in 1..Len(ds) : ds[i] \in Digits
        THEN [ok |-> TRUE, value |-> IF negative THEN 0 - DigitsValue(ds) ELSE DigitsValue(ds)]
        ELSE [ok |-> FALSE, value |-> 0]

\* the themes offered by the dialog
Themes == {"clam", "alt", "default", "classic"}

\* ------------------------------------------------------------------------
\* State
\* ------------------------------------------------------------------------

VARIABLES
    phase,                  \* position in WeatherApp.__init__ / the main loop
    now,                    \* datetime.now(), in hours on the scale of the timestamps
    weather_readings,       \* table read by get_available_cities
    processed_weather_data, \* table read by get_current_weather_data
    combo_values,           \* city_combo['values']
    current_city,           \* self.current_city
    current_data,           \* self.current_data
    view,                   \* the texts of the labels of the current-weather display
    status,                 \* status_label text
    last_error,             \* the last message shown by messagebox.showerror
    callback_exception,     \* an exception left a callback of the main loop
    refresh_interval,       \* self.refresh_interval (milliseconds)
    theme,                  \* the ttk theme in use
    dialog_open,            \* a PreferencesDialog is open (and holds the grab)
    timers,                 \* pending root.after(refresh_interval, start_auto_refresh)
    workers,                \* running _load_data_background threads (a bag)
    queue,                  \* callbacks queued with root.after(0, ...)
    enhanced,               \* enhance_main_app has replaced _update_ui_with_data
    active_alerts,          \* alerts_manager.active_alerts
    charts,                 \* the selector each chart was last drawn for
    main_thread_queries,    \* the queries the main thread has run
    weather_data,           \* argument of a direct check_weather_alerts call
    alerts_pc               \* position of that call

vars == <<phase, now, weather_readings, processed_weather_data, combo_values,
          current_city, current_data, view, status, last_error,
          callback_exception, refresh_interval, theme, dialog_open, timers,
          workers, queue, enhanced, active_alerts, charts,
          main_thread_queries, weather_data, alerts_pc>>

store == <<now, weather_readings, processed_weather_data>>
prefs == <<refresh_interval, theme, dialog_open>>
display == <<current_data, view, active_alerts, callback_exception, charts>>
harness == <<weather_data, alerts_pc>>

\* the labels _update_ui_with_data sets, in the order it sets them
RenderOrder ==
    <<"temperature", "weather_description", "feels_like", "humidity", "pressure",
      "wind_speed", "comfort_index", "heat_index_c", "wind_chill_c",
      "weather_severity", "timestamp">>

\* the keys _update_ui_with_data reads with data[...]
RequiredKeys ==
    {"temperature", "weather_description", "feels_like", "humidity", "pressure",
     "wind_speed", "timestamp"}

Labels == {RenderOrder[i] : i \in 1..Len(RenderOrder)}

\* the display before any reading was applied
BlankView == [l \in Labels |-> <<>>]

\* the charts before either was drawn
BlankCharts == [trends |-> None, historical |-> None]

\* the state set by WeatherApp.__init__ before load_initial_data
InitApp ==
    /\ phase = "constructed"
    /\ combo_values = <<>>
    /\ current_city = None
    /\ current_data = NoData
    /\ view = BlankView
    /\ status = "Ready"
    /\ last_error = "none"
    /\ callback_exception = FALSE
    /\ refresh_interval = 30000
    /\ theme = "clam"
    /\ dialog_open = FALSE
    /\ timers = 0
    /\ workers = EmptyBag
    /\ queue = <<>>
    /\ enhanced = FALSE
    /\ active_alerts = <<>>
    /\ charts = BlankCharts
    /\ main_thread_queries = {}

\* the application on a store last written more than 7 days ago
Init ==
    /\ InitApp
    /\ now = 200
    /\ weather_readings \in {{}, CityPairs}
    /\ processed_weather_data \in {StoreAt(t) : t \in Timestamps}
    /\ weather_data = NoData
    /\ alerts_pc = "idle"

\* ------------------------------------------------------------------------
\* Queries
\* ------------------------------------------------------------------------

\* the lists SELECT DISTINCT city || ', ' || country ... ORDER BY city may return
CityLists ==
    LET n == Cardinality(weather_readings)
    IN  {[i \in 1..n |-> Selector(ps[i][1], ps[i][2])] :
            ps \in {qs \in [1..n -> weather_readings] :
                      /\ \A i, j \in 1..n : i # j => qs[i] # qs[j]
                      /\ \A i, j \in 1..n : i < j => StrLeq(qs[i][1], qs[j][1])}}

\* the rows WHERE city = ? AND country = ? ORDER BY timestamp DESC LIMIT 1 may return
LatestRows(city, country) ==
    LET matching == {r \in processed_weather_data : r.city = city /\ r.country = country}
    IN  {r \in matching : \A q \in matching : q.timestamp <= r.timestamp}

\* the values get_current_weather_data may return when the query succeeds
get_current_weather_data(city, country) ==
    IF LatestRows(city, country) = {} THEN {NoData} ELSE LatestRows(city, country)

\* ------------------------------------------------------------------------
\* Status bar and error surface
\* ------------------------------------------------------------------------

\* update_status(message)
update_status(message) == status' = message

\* show_error(message)
show_error(message) ==
    /\ last_error' = message
    /\ update_status("Error occurred")

\* ------------------------------------------------------------------------
\* Refresh
\* ------------------------------------------------------------------------

InFlight == BagCardinality(workers) + Len(queue)

\* a thread that has not yet run a statement of _load_data_background
NewWorker ==
    [pc |-> "start", city |-> <<>>, country |-> <<>>, current_data |-> NoData,
     error |-> "none"]

\* refresh_data without its `if not self.current_city: return`
refresh_data_without_guard(city) ==
    /\ update_status("Refreshing data...")
    /\ workers' = workers (+) SetToBag({NewWorker})

\* refresh_data() called while self.current_city is city
refresh_data(city) ==
    IF city = None
    THEN UNCHANGED <<status, workers>>
    ELSE /\ update_status("Refreshing data...")
         /\ workers' = workers (+) SetToBag({NewWorker})

\* room for the thread refresh_data(city) would start
CanRefresh(city) == city = None \/ InFlight < MaxInFlight

\* load_initial_data reporting an empty list of cities as an error
LoadInitialData_reporting_empty ==
    /\ phase = "constructed"
    /\ phase' = "loaded"
    /\ \/ \E cities \in CityLists :
            /\ combo_values' = cities
            /\ IF cities # <<>>
               THEN /\ current_city' = cities[1]
                    /\ refresh_data(cities[1])
                    /\ UNCHANGED last_error
               ELSE /\ show_error("No cities available")
                    /\ UNCHANGED <<current_city, workers>>
       \/ \* sqlite3.Error in get_available_cities
          /\ show_error("Database error")
          /\ combo_values' = <<>>
          /\ UNCHANGED <<current_city, workers>>
    /\ main_thread_queries' = main_thread_queries \cup {"get_available_cities"}
    /\ UNCHANGED <<store, prefs, display, harness, timers, queue, enhanced>>

\* load_initial_data(), called by __init__
LoadInitialData ==
    /\ phase = "constructed"
    /\ phase' = "loaded"
    /\ \/ \E cities \in CityLists :
            /\ combo_values' = cities
            /\ IF cities # <<>>
               THEN /\ current_city' = cities[1]
                    /\ refresh_data(cities[1])
               ELSE UNCHANGED <<current_city, status, workers>>
            /\ UNCHANGED last_error
       \/ \* sqlite3.Error in get_available_cities
          /\ show_error("Database error")
          /\ combo_values' = <<>>
          /\ UNCHANGED <<current_city, workers>>
    /\ main_thread_queries' = main_thread_queries \cup {"get_available_cities"}
    /\ UNCHANGED <<store, prefs, display, harness, timers, queue, enhanced>>

\* start_auto_refresh returning before root.after when no city is selected
start_auto_refresh_early_return(pending) ==
    /\ CanRefresh(current_city)
    /\ refresh_data(current_city)
    /\ timers' = IF current_city = None THEN pending ELSE pending + 1

\* start_auto_refresh without its root.after call
start_auto_refresh_once(pending) ==
    /\ CanRefresh(current_city)
    /\ refresh_data(current_city)
    /\ timers' = pending

\* start_auto_refresh() with `pending` other timers left pending
start_auto_refresh(pending) ==
    /\ CanRefresh(current_city)
    /\ refresh_data(current_city)
    /\ timers' = pending + 1

\* start_auto_refresh(), called by __init__
StartAutoRefresh ==
    /\ phase = "loaded"
    /\ phase' = "running"
    /\ start_auto_refresh(timers)
    /\ UNCHANGED <<store, prefs, display, harness, main_thread_queries,
                   combo_values, current_city,
                   last_error, queue, enhanced>>

\* the timer armed by start_auto_refresh fires
AutoRefreshTimer ==
    /\ phase = "running"
    /\ timers > 0
    /\ start_auto_refresh(timers - 1)
    /\ UNCHANGED <<phase, store, prefs, display, harness, main_thread_queries,
                   combo_values,
                   current_city, last_error, queue, enhanced>>

\* the Refresh button or the File > Refresh Data menu entry
RefreshCommand ==
    /\ phase = "running"
    /\ ~dialog_open
    /\ CanRefresh(current_city)
    /\ refresh_data(current_city)
    /\ UNCHANGED <<phase, store, prefs, display, harness, main_thread_queries,
                   combo_values,
                   current_city, last_error, timers, queue, enhanced>>

\* on_city_changed(event) after the user picked `selection` in the combobox
on_city_changed(selection) ==
    /\ phase = "running"
    /\ ~dialog_open
    /\ CanRefresh(selection)
    /\ current_city' = selection
    /\ refresh_data(selection)
    /\ UNCHANGED <<phase, store, prefs, display, harness, main_thread_queries,
                   combo_values,
                   last_error, timers, queue, enhanced>>

\* enhance_main_app(), called once on the constructed application
EnhanceMainApp ==
    /\ phase = "running"
    /\ ~enhanced
    /\ enhanced' = TRUE
    /\ UNCHANGED <<phase, store, prefs, display, harness, main_thread_queries,
                   combo_values,
                   current_city, status, last_error, timers, workers, queue>>

\* ------------------------------------------------------------------------
\* _load_data_background on its thread
\* ------------------------------------------------------------------------

\* a callback and its argument as queued by root.after(0, callback, argument)
Callback(kind, data, message, isEnhanced) ==
    [kind |-> kind, data |-> data, message |-> message, enhanced |-> isEnhanced]

\* the worker after its try block: the city it parsed, the value its query
\* returned and the exception raised on the way, if any
Fetched(pc, city, country, data, error) ==
    [pc |-> pc, city |-> city, country |-> country, current_data |-> data,
     error |-> error]

\* the threads once thread w has moved on to state v
Step(w, v) == (workers (-) SetToBag({w})) (+) SetToBag({v})

\* a worker reads self.current_city and runs get_current_weather_data
WorkerFetch(w) ==
    /\ w.pc = "start"
    /\ LET parsed == ParseSelector(current_city)
           city == parsed[1]
           country == parsed[2]
       IN  \/ \E row \in get_current_weather_data(city, country) :
                workers' = Step(w, Fetched("fetched", city, country, row, "none"))
           \/ \* sqlite3.Error, caught and printed by get_current_weather_data
              workers' = Step(w, Fetched("fetched", city, country, NoData, "sqlite3.Error"))
           \/ \* any other exception, caught by _load_data_background
              workers' = Step(w, Fetched("raised", city, country, NoData, "Exception"))
    /\ UNCHANGED <<phase, store, prefs, display, harness, main_thread_queries,
                   combo_values,
                   current_city, status, last_error, timers, queue, enhanced>>

\* the callback the worker hands to root.after(0, ...)
WorkerCallback(w) ==
    IF w.pc = "raised"
    THEN Callback("show_error", NoData, "Error loading data", FALSE)
    ELSE IF Truthy(w.current_data)
    THEN Callback("_update_ui_with_data", w.current_data, "", enhanced)
    ELSE Callback("update_status", NoData, "No data available for selected city", FALSE)

\* a worker calling update_status and show_error itself instead of handing
\* them to root.after
WorkerPost_calling_directly(w) ==
    /\ w.pc \in {"fetched", "raised"}
    /\ workers' = workers (-) SetToBag({w})
    /\ IF WorkerCallback(w).kind = "_update_ui_with_data"
       THEN /\ queue' = Append(queue, WorkerCallback(w))
            /\ UNCHANGED <<status, last_error>>
       ELSE IF WorkerCallback(w).kind = "show_error"
       THEN /\ show_error(WorkerCallback(w).message)
            /\ UNCHANGED queue
       ELSE /\ update_status(WorkerCallback(w).message)
            /\ UNCHANGED <<queue, last_error>>
    /\ UNCHANGED <<phase, store, prefs, display, harness, main_thread_queries,
                   combo_values, current_city, timers, enhanced>>

\* a worker calls root.after(0, ...) and ends
WorkerPost(w) ==
    /\ w.pc \in {"fetched", "raised"}
    /\ queue' = Append(queue, WorkerCallback(w))
    /\ workers' = workers (-) SetToBag({w})
    /\ UNCHANGED <<phase, store, prefs, display, harness, main_thread_queries,
                   combo_values,
                   current_city, status, last_error, timers, enhanced>>

\* ------------------------------------------------------------------------
\* Callbacks run by the main loop
\* ------------------------------------------------------------------------

\* position in RenderOrder of the first data[key] that raises KeyError
FirstMissing(data) ==
    LET missing == {i \in 1..Len(RenderOrder) :
                      RenderOrder[i] \in RequiredKeys \ DOMAIN data}
    IN  IF missing = {} THEN Len(RenderOrder) + 1
        ELSE CHOOSE i \in missing : \A j \in missing : i <= j

\* the labels after _update_ui_with_data(data) ran as far as it gets
Rendered(data) ==
    [l \in Labels |->
        LET i == CHOOSE j \in 1..Len(RenderOrder) : RenderOrder[j] = l
        IN  IF i < FirstMissing(data) THEN <<Get(data, l, 0)>> ELSE view[l]]

\* the rows a chart query returns: WHERE city = ? AND country = ?
\* AND datetime(timestamp) > datetime(start_time)
ChartRows(selector, start_time) ==
    {r \in processed_weather_data :
        /\ <<r.city, r.country>> = ParseSelector(selector)
        /\ r.timestamp > start_time}

\* the selector the trends chart shows after update_trends_chart(): the chart
\* is redrawn for current_city when the query returns rows of the last 24
\* hours, and left alone when df.empty
update_trends_chart ==
    IF ChartRows(current_city, now - 24) # {} THEN current_city ELSE charts.trends

\* the selector the historical chart shows after update_historical_chart(),
\* the period being the "7 days" the combobox starts with
update_historical_chart ==
    IF ChartRows(current_city, now - 7 * 24) # {} THEN current_city
    ELSE charts.historical

\* the status enhanced_update sets when alerts are active
AlertStatus(n) ==
    CASE n = 1 -> "1 weather alert(s) active"
      [] n = 2 -> "2 weather alert(s) active"
      [] n = 3 -> "3 weather alert(s) active"
      [] OTHER -> "4 weather alert(s) active"

\* the main loop runs a queued _update_ui_with_data(data): the original method,
\* or enhanced_update when the worker found the method replaced
UpdateUiWithData ==
    /\ phase = "running"
    /\ queue # <<>>
    /\ Head(queue).kind = "_update_ui_with_data"
    /\ queue' = Tail(queue)
    /\ LET data == Head(queue).data
           alerts == check_weather_alerts(data)
       IN  /\ current_data' = data
           /\ view' = Rendered(data)
           /\ IF FirstMissing(data) <= Len(RenderOrder)
              THEN \* KeyError leaves the callback
                   /\ callback_exception' = TRUE
                   /\ UNCHANGED <<status, active_alerts, charts, main_thread_queries>>
              ELSE /\ UNCHANGED callback_exception
                   /\ charts' = [trends |-> update_trends_chart,
                                  historical |-> update_historical_chart]
                   /\ main_thread_queries' = main_thread_queries \cup
                         {"update_trends_chart", "update_historical_chart"}
                   /\ IF Head(queue).enhanced
                      THEN /\ active_alerts' = alerts
                           /\ IF alerts # <<>>
                              THEN update_status(AlertStatus(Len(alerts)))
                              ELSE update_status("Data updated successfully")
                      ELSE /\ update_status("Data updated successfully")
                           /\ UNCHANGED active_alerts
    /\ UNCHANGED <<phase, store, prefs, harness, combo_values, current_city,
                   last_error, timers, workers, enhanced>>

\* update_status(message) run from the queue and blanking the display
UpdateStatusCallback_clearing ==
    /\ phase = "running"
    /\ queue # <<>>
    /\ Head(queue).kind = "update_status"
    /\ queue' = Tail(queue)
    /\ update_status(Head(queue).message)
    /\ current_data' = NoData
    /\ view' = BlankView
    /\ active_alerts' = <<>>
    /\ UNCHANGED <<phase, store, prefs, callback_exception, charts, harness,
                   main_thread_queries, combo_values, current_city, last_error,
                   timers, workers, enhanced>>

\* the main loop runs a queued update_status(message)
UpdateStatusCallback ==
    /\ phase = "running"
    /\ queue # <<>>
    /\ Head(queue).kind = "update_status"
    /\ queue' = Tail(queue)
    /\ update_status(Head(queue).message)
    /\ UNCHANGED <<phase, store, prefs, display, harness, main_thread_queries,
                   combo_values,
                   current_city, last_error, timers, workers, enhanced>>

\* the main loop runs a queued show_error(message)
ShowErrorCallback ==
    /\ phase = "running"
    /\ queue # <<>>
    /\ Head(queue).kind = "show_error"
    /\ queue' = Tail(queue)
    /\ show_error(Head(queue).message)
    /\ UNCHANGED <<phase, store, prefs, display, harness, main_thread_queries,
                   combo_values,
                   current_city, timers, workers, enhanced>>

\* ------------------------------------------------------------------------
\* PreferencesDialog
\* ------------------------------------------------------------------------

\* open_preferences(): Settings > Preferences
OpenPreferences ==
    /\ phase = "running"
    /\ ~dialog_open
    /\ dialog_open' = TRUE
    /\ UNCHANGED <<phase, store, display, harness, main_thread_queries,
                   combo_values, current_city,
                   status, last_error, refresh_interval, theme, timers, workers,
                   queue, enhanced>>

\* the Cancel button: dialog.destroy
CancelPreferences ==
    /\ dialog_open
    /\ dialog_open' = FALSE
    /\ UNCHANGED <<phase, store, display, harness, main_thread_queries,
                   combo_values, current_city,
                   status, last_error, refresh_interval, theme, timers, workers,
                   queue, enhanced>>

\* apply_preferences with the theme applied ahead of the interval
apply_preferences_theme_first(text, selected) ==
    /\ dialog_open
    /\ theme' = selected
    /\ IF ParseInt(text).ok
       THEN /\ refresh_interval' = ParseInt(text).value * 1000
            /\ dialog_open' = FALSE
            /\ UNCHANGED last_error
       ELSE /\ last_error' = "Please enter a valid refresh interval"
            /\ UNCHANGED <<refresh_interval, dialog_open>>
    /\ UNCHANGED <<phase, store, display, harness, main_thread_queries,
                   combo_values, current_city,
                   status, timers, workers, queue, enhanced>>

\* apply_preferences() with `text` in the interval entry and `selected` as theme
apply_preferences(text, selected) ==
    /\ dialog_open
    /\ IF ParseInt(text).ok
       THEN /\ refresh_interval' = ParseInt(text).value * 1000
            /\ theme' = selected
            /\ dialog_open' = FALSE
            /\ UNCHANGED last_error
       ELSE \* ValueError
            /\ last_error' = "Please enter a valid refresh interval"
            /\ UNCHANGED <<refresh_interval, theme, dialog_open>>
    /\ UNCHANGED <<phase, store, display, harness, main_thread_queries,
                   combo_values, current_city,
                   status, timers, workers, queue, enhanced>>

\* ------------------------------------------------------------------------
\* Specification of the application
\* ------------------------------------------------------------------------

\* the preference inputs exercised together with the refresh pipeline
SampleTexts == {<<"a">>, <<"0">>}
SampleThemes == {"clam"}

Next ==
    \/ LoadInitialData
    \/ StartAutoRefresh
    \/ AutoRefreshTimer
    \/ RefreshCommand
    \/ \E i \in 1..Len(combo_values) : on_city_changed(combo_values[i])
    \/ EnhanceMainApp
    \/ \E w \in BagToSet(workers) : WorkerFetch(w)
    \/ \E w \in BagToSet(workers) : WorkerPost(w)
    \/ UpdateUiWithData
    \/ UpdateStatusCallback
    \/ ShowErrorCallback
    \/ OpenPreferences
    \/ CancelPreferences
    \/ \E text \in SampleTexts, selected \in SampleThemes : apply_preferences(text, selected)

Spec == Init /\ [][Next]_vars

\* ------------------------------------------------------------------------
\* Specification of the refresh loop under the program's scheduling: threads
\* run, the main loop runs its queued callbacks and fires its timers. The
\* store lists every city and holds, after the first round of ingestion, a
\* reading for some of them only.
\* ------------------------------------------------------------------------

InitRefresh ==
    /\ Init
    /\ weather_readings = CityPairs
    /\ processed_weather_data = StoreAt(1)

NextRefresh ==
    \/ LoadInitialData
    \/ StartAutoRefresh
    \/ AutoRefreshTimer
    \/ RefreshCommand
    \/ \E i \in 1..Len(combo_values) : on_city_changed(combo_values[i])
    \/ EnhanceMainApp
    \/ \E w \in BagToSet(workers) : WorkerFetch(w)
    \/ \E w \in BagToSet(workers) : WorkerPost(w)
    \/ UpdateUiWithData
    \/ UpdateStatusCallback
    \/ ShowErrorCallback

FairSpec ==
    /\ InitRefresh
    /\ [][NextRefresh]_vars
    /\ WF_vars(AutoRefreshTimer)
    /\ WF_vars(\E w \in BagToSet(workers) : WorkerFetch(w))
    /\ WF_vars(\E w \in BagToSet(workers) : WorkerPost(w))
    /\ WF_vars(UpdateUiWithData)
    /\ WF_vars(UpdateStatusCallback)
    /\ WF_vars(ShowErrorCallback)

\* ------------------------------------------------------------------------
\* Specification of the refresh pipeline with its charts: the cities are
\* listed, and the store was last written within the last 24 hours or
\* within the last 7 days
\* ------------------------------------------------------------------------

InitCharts ==
    /\ InitApp
    /\ now \in {3, 100}
    /\ weather_readings = CityPairs
    /\ processed_weather_data \in {StoreAt(t) : t \in Timestamps}
    /\ weather_data = NoData
    /\ alerts_pc = "idle"

SpecCharts == InitCharts /\ [][NextRefresh]_vars

\* ------------------------------------------------------------------------
\* Specification of the preferences dialog: the application on an empty
\* store, every text of the interval entry and every theme
\* ------------------------------------------------------------------------

InitPrefs ==
    /\ Init
    /\ weather_readings = {}
    /\ processed_weather_data = {}

NextPrefs ==
    \/ LoadInitialData
    \/ StartAutoRefresh
    \/ AutoRefreshTimer
    \/ RefreshCommand
    \/ OpenPreferences
    \/ CancelPreferences
    \/ \E text \in IntervalTexts, selected \in Themes : apply_preferences(text, selected)

SpecPrefs == InitPrefs /\ [][NextPrefs]_vars

\* ------------------------------------------------------------------------
\* Specification of check_weather_alerts: one call on any reading
\* ------------------------------------------------------------------------

AlertKeys == {"temperature", "wind_speed", "pressure", "weather_severity"}

\* values below, at and above each threshold
TemperatureValues == {-11, -10, 0, 35, 36}
WindValues == {0, 15, 16}
PressureValues == {979, 980, 1013}
SeverityValues == {0, 70, 71}

\* the readings with any of the four keys missing
AlertReadings ==
    {[k \in present |-> r[k]] :
        r \in [temperature : TemperatureValues, wind_speed : WindValues,
               pressure : PressureValues, weather_severity : SeverityValues],
        present \in SUBSET AlertKeys}

\* the enhanced application on an empty store, about to check a reading
InitAlerts ==
    /\ phase = "running"
    /\ now = 200
    /\ weather_readings = {}
    /\ processed_weather_data = {}
    /\ combo_values = <<>>
    /\ current_city = None
    /\ current_data = NoData
    /\ view = BlankView
    /\ status = "Ready"
    /\ last_error = "none"
    /\ callback_exception = FALSE
    /\ refresh_interval = 30000
    /\ theme = "clam"
    /\ dialog_open = FALSE
    /\ timers = 1
    /\ workers = EmptyBag
    /\ queue = <<>>
    /\ enhanced = TRUE
    /\ active_alerts = <<>>
    /\ charts = BlankCharts
    /\ main_thread_queries = {"get_available_cities"}
    /\ weather_data \in AlertReadings
    /\ alerts_pc = "idle"

\* alerts_manager.check_weather_alerts(weather_data)
CheckWeatherAlerts ==
    /\ alerts_pc = "idle"
    /\ enhanced
    /\ active_alerts' = check_weather_alerts(weather_data)
    /\ alerts_pc' = "returned"
    /\ UNCHANGED <<phase, store, prefs, combo_values, current_city, current_data,
                   view, callback_exception, charts, main_thread_queries, status,
                   last_error, timers, workers, queue, enhanced, weather_data>>

NextAlerts == CheckWeatherAlerts

SpecAlerts == InitAlerts /\ [][NextAlerts]_vars

\* ------------------------------------------------------------------------
\* Properties
\* ------------------------------------------------------------------------

NoDataStatus == "No data available for selected city"
InvalidIntervalMessage == "Please enter a valid refresh interval"

\* the (city, country) a fetch in flight is for: what the worker parsed, or
\* what it is about to parse
FetchCity(w) ==
    IF w.pc = "start" THEN ParseSelector(current_city) ELSE <<w.city, w.country>>

\* the number of fetches in flight for a (city, country): running workers
\* and readings queued for the view
FetchesInFlight(place) ==
    BagCardinality([w \in {v \in BagToSet(workers) : FetchCity(v) = place} |->
                      CopiesIn(w, workers)])
    + Len(SelectSeq(queue, LAMBDA c : /\ c.kind = "_update_ui_with_data"
                                      /\ <<c.data.city, c.data.country>> = place))

\* the (city, country) of the selectors of the combobox
Places == {ParseSelector(combo_values[i]) : i \in 1..Len(combo_values)}

\* C1: last selection wins. Whenever the main loop applies a fetched reading
\* to the view, the reading is one of the city that is current at that
\* moment: a reading fetched for a superseded city is never written to
\* current_data or the view.
C1_StaleResultDropped ==
    [][UpdateUiWithData =>
        <<current_data'.city, current_data'.country>> = ParseSelector(current_city)]_vars

\* C2: once start_auto_refresh has run, exactly one auto-refresh timer is
\* pending in every state, whatever timer firings, manual refreshes, city
\* changes and preference changes have happened.
C2_OneTimerPending == phase = "running" => timers = 1

\* C2 witness: a refresh cycle ended without data and a preference change
\* went through, and one timer is pending
C2_Witness ==
    /\ phase = "running"
    /\ timers = 1
    /\ status = NoDataStatus
    /\ refresh_interval # 30000
    /\ InFlight = 0

\* C3: refresh cycles never overlap. No two fetches in flight (a running
\* worker, or a fetched reading not yet applied) are for the same city.
C3_NoOverlap == \A place \in Places : FetchesInFlight(place) <= 1

\* the alerts of one type in the list check_weather_alerts returned
AlertsOfType(type) == SelectSeq(active_alerts, LAMBDA a : a.type = type)

\* C4: check_weather_alerts returns at most one temperature alert: exactly
\* one High Temperature Alert (a warning) when temperature > high_temperature,
\* otherwise exactly one Low Temperature Alert when temperature <
\* low_temperature, otherwise none.
C4_OneTemperatureAlert ==
    alerts_pc = "returned" =>
        LET found == AlertsOfType("temperature")
        IN  /\ Len(found) <= 1
            /\ "temperature" \in DOMAIN weather_data =>
                 IF weather_data.temperature > alert_thresholds.high_temperature
                 THEN /\ Len(found) = 1
                      /\ found[1].title = "High Temperature Alert"
                      /\ found[1].severity = "warning"
                 ELSE IF weather_data.temperature < alert_thresholds.low_temperature
                 THEN /\ Len(found) = 1
                      /\ found[1].title = "Low Temperature Alert"
                 ELSE found = <<>>

\* C4 witness: a reading above the high threshold was checked and gave its alert
C4_Witness ==
    /\ alerts_pc = "returned"
    /\ "temperature" \in DOMAIN weather_data
    /\ weather_data.temperature = 36
    /\ Len(AlertsOfType("temperature")) = 1

\* the type and severity of the alert a condition gives, if it holds
Expect(condition, type, severity) ==
    IF condition THEN <<[type |-> type, severity |-> severity]>> ELSE <<>>

\* C5: for a reading with all four fields, the list returned by
\* check_weather_alerts is exactly the subsequence of [temperature, wind,
\* pressure, severity] whose (strict) condition holds, in that order, each
\* type at most once: wind_speed > 15 a caution, pressure < 980 a watch,
\* weather_severity > 70 a warning.
C5_AlertsInFixedOrder ==
    (alerts_pc = "returned" /\ AlertKeys \subseteq DOMAIN weather_data) =>
        [i \in 1..Len(active_alerts) |->
            [type |-> active_alerts[i].type, severity |-> active_alerts[i].severity]]
        = Expect(weather_data.temperature > 35 \/ weather_data.temperature < -10,
                 "temperature", "warning")
          \o Expect(weather_data.wind_speed > 15, "wind", "caution")
          \o Expect(weather_data.pressure < 980, "pressure", "watch")
          \o Expect(weather_data.weather_severity > 70, "severity", "warning")

\* C5 witness: the reading of the specification's example (wind, pressure
\* and severity alerts, no temperature alert) was checked
C5_Witness ==
    /\ alerts_pc = "returned"
    /\ AlertKeys \subseteq DOMAIN weather_data
    /\ weather_data.temperature = 0
    /\ weather_data.wind_speed = 16
    /\ weather_data.pressure = 979
    /\ weather_data.weather_severity = 71
    /\ Len(active_alerts) = 3

\* the alert type each field of a reading decides
TypeOfKey(k) ==
    CASE k = "temperature" -> "temperature"
      [] k = "wind_speed" -> "wind"
      [] k = "pressure" -> "pressure"
      [] OTHER -> "severity"

\* C6: a field missing from the reading never triggers its alert, and a
\* reading with all four fields missing leaves active_alerts empty.
C6_AbsentFieldNoAlert ==
    alerts_pc = "returned" =>
        /\ \A k \in AlertKeys \ DOMAIN weather_data : AlertsOfType(TypeOfKey(k)) = <<>>
        /\ AlertKeys \cap DOMAIN weather_data = {} => active_alerts = <<>>

\* C6 witness: a reading without pressure whose other fields all trigger
\* was checked
C6_Witness ==
    /\ alerts_pc = "returned"
    /\ DOMAIN weather_data = AlertKeys \ {"pressure"}
    /\ Len(active_alerts) = 3

\* an Apply step of the dialog on a text int() rejects
ApplyInvalid ==
    \E text \in IntervalTexts, selected \in Themes :
        /\ ~ParseInt(text).ok
        /\ apply_preferences(text, selected)

\* C7: apply_preferences on a text that is not an integer leaves
\* refresh_interval and the theme unchanged, reports the invalid interval
\* and leaves the dialog open.
C7_InvalidIntervalRejected ==
    [][ApplyInvalid =>
        /\ UNCHANGED <<refresh_interval, theme>>
        /\ last_error' = InvalidIntervalMessage
        /\ dialog_open']_vars

\* C7 witness: an invalid interval was reported after an earlier valid
\* change of interval and theme, both still in effect, the dialog open
C7_Witness ==
    /\ last_error = InvalidIntervalMessage
    /\ dialog_open
    /\ refresh_interval = 10000
    /\ theme = "alt"

\* C8: refresh_interval is positive in every reachable state.
C8_IntervalPositive == refresh_interval > 0

\* C9: a failed refresh cycle does not stop auto-refresh. Whenever a cycle
\* for the selected city has ended with no data or an error status, a later
\* refresh attempt follows.
C9_FailedCycleRefreshesAgain ==
    (current_city # None /\ status \in {NoDataStatus, "Error occurred"})
        ~> (status = "Refreshing data...")

\* C9 witness: a cycle ended with no data, nothing is in flight and the
\* timer is pending
C9_Witness ==
    /\ current_city # None
    /\ status = NoDataStatus
    /\ InFlight = 0
    /\ timers = 1
    /\ last_error = "Error loading data"

\* C10: a query failure in the fetch is reported on the error surface:
\* a worker whose query raised hands show_error to the main loop, never the
\* 'no data available' status.
C10_FailureReportedAsError ==
    \A w \in BagToSet(workers) :
        w.error # "none" => WorkerCallback(w).kind = "show_error"

\* C11: an empty store is a state, not an error. When load_initial_data runs
\* on a store without cities, the combobox gets the empty list, no city is
\* selected and no fetch is started; nothing is reported unless the query of
\* get_available_cities itself failed with a database error.
C11_EmptyStoreLoadsNothing ==
    [][(LoadInitialData /\ weather_readings = {}) =>
          /\ combo_values' = <<>>
          /\ current_city' = None
          /\ workers' = EmptyBag
          /\ queue' = <<>>
          /\ \/ status' = status /\ last_error' = last_error
             \/ last_error' = "Database error"]_vars

C11_Witness ==
    /\ phase = "loaded"
    /\ weather_readings = {}
    /\ main_thread_queries = {"get_available_cities"}
    /\ combo_values = <<>>
    /\ current_city = None
    /\ workers = EmptyBag
    /\ status = "Ready"
    /\ last_error = "none"

\* C12: refresh_data is a no-op while no city is selected. Called by
\* __init__ through start_auto_refresh, by the timer or by the Refresh
\* command, it starts no thread, queues no callback, runs no query and leaves
\* the status, current_data, the view, the charts and active_alerts alone.
C12_RefreshWithoutCityIsNoOp ==
    [][(current_city = None /\ (StartAutoRefresh \/ AutoRefreshTimer \/ RefreshCommand)) =>
          UNCHANGED <<status, workers, queue, main_thread_queries, current_data,
                      view, charts, active_alerts>>]_vars

C12_Witness ==
    /\ phase = "running"
    /\ current_city = None
    /\ timers = 1
    /\ status = "Ready"
    /\ workers = EmptyBag
    /\ queue = <<>>
    /\ current_data = NoData

\* the alerts of the latest reading stored for the city that is current
AlertsOfCurrentCity ==
    LET place == ParseSelector(current_city)
        rows == LatestRows(place[1], place[2])
    IN  IF rows = {} THEN <<>> ELSE check_weather_alerts(CHOOSE r \in rows : TRUE)

\* a refresh cycle of the enhanced application completes and no other is in
\* flight: the main loop runs the callback the last worker queued
CycleCompletes ==
    /\ \/ UpdateUiWithData /\ Head(queue).enhanced
       \/ enhanced /\ (UpdateStatusCallback \/ ShowErrorCallback)
    /\ workers' = EmptyBag
    /\ queue' = <<>>

\* C13: the alert set is recomputed on every refresh cycle, the previous set
\* being discarded. When a cycle completes and none is left in flight, no
\* alert of an earlier cycle or of a city selected before remains: every
\* active alert is an alert of the latest reading of the city that is
\* current.
C13_NoAlertOfEarlierCycleRemains ==
    [][CycleCompletes =>
          \A i \in 1..Len(active_alerts') :
              \E j \in 1..Len(AlertsOfCurrentCity') :
                  active_alerts'[i] = AlertsOfCurrentCity'[j]]_vars

\* C14: the selector round-trips. Every selector of the combobox was built
\* from a (city, country) of the store, and parsing it as the refresh, chart
\* and export paths do gives that (city, country) back, also when the city
\* or the country contains ", ".
C14_SelectorRoundTrip ==
    \A i \in 1..Len(combo_values) :
        \E place \in weather_readings :
            /\ combo_values[i] = Selector(place[1], place[2])
            /\ ParseSelector(combo_values[i]) = place

\* C15: get_current_weather_data(city, country) returns the stored reading
\* of that city and country with the greatest timestamp, and None exactly
\* when the store holds no reading of them. Stated of the value a worker
\* holds once its call returned.
C15_LatestReadingOrAbsent ==
    \A w \in BagToSet(workers) :
        w.pc = "fetched" =>
            LET matching == {r \in processed_weather_data :
                               r.city = w.city /\ r.country = w.country}
            IN  IF matching = {} THEN w.current_data = NoData
                ELSE /\ w.current_data \in matching
                     /\ \A q \in matching : q.timestamp <= w.current_data.timestamp

\* C16: every error of a refresh cycle is caught and reported. No exception
\* leaves a callback of the main loop, also when the reading applied lacks
\* a key _update_ui_with_data reads.
C16_NoUncaughtCallbackError == ~callback_exception

\* C17: no presentation call runs on the worker thread. A step of
\* _load_data_background writes neither current_data nor the labels, the
\* charts, the status bar, the error surface or the alerts; what its outcome
\* shows is queued with root.after for the main loop.
C17_WorkerWritesNoView ==
    [][\A w \in BagToSet(workers) :
          (WorkerFetch(w) \/ WorkerPost(w)) =>
              /\ UNCHANGED <<current_data, view, charts, status, last_error,
                             active_alerts, main_thread_queries>>
              /\ Len(queue') = Len(queue) + (IF w.pc = "start" THEN 0 ELSE 1)]_vars

\* each outcome of a worker waiting in the queue, nothing shown yet
C17_Witness ==
    /\ workers = EmptyBag
    /\ Len(queue) = 2
    /\ queue[1].kind = "_update_ui_with_data"
    /\ queue[2].kind \in {"update_status", "show_error"}
    /\ current_data = NoData
    /\ view = BlankView
    /\ status = "Refreshing data..."
    /\ last_error = "none"

\* C18: the queries of a refresh cycle run off the main thread. The main
\* thread runs no query but the one of get_available_cities in __init__.
C18_QueriesOffMainThread == main_thread_queries \subseteq {"get_available_cities"}

\* C19: alerts are evaluated before the view is rendered. Whenever the
\* enhanced update changes a label for a reading, the alerts of that reading
\* have been computed.
C19_AlertsBeforeRender ==
    [][(UpdateUiWithData /\ Head(queue).enhanced /\ view' # view) =>
          active_alerts' = check_weather_alerts(current_data')]_vars

\* C20: a cycle that finds no reading changes the status message only. The
\* queued update_status sets "No data available for selected city" and
\* leaves current_data, the labels, the charts and active_alerts as the last
\* successful cycle set them.
C20_NoDataCycleChangesOnlyStatus ==
    [][(UpdateStatusCallback /\ Head(queue).message = NoDataStatus) =>
          /\ status' = NoDataStatus
          /\ UNCHANGED <<current_city, current_data, view, charts, active_alerts,
                         last_error, callback_exception>>]_vars

\* the display still shows the reading, charts and alerts of a city
\* selected before
C20_Witness ==
    /\ status = NoDataStatus
    /\ workers = EmptyBag
    /\ queue = <<>>
    /\ current_data # NoData
    /\ <<current_data.city, current_data.country>> # ParseSelector(current_city)
    /\ view = Rendered(current_data)
    /\ charts.trends # None
    /\ charts.trends # current_city
    /\ active_alerts = check_weather_alerts(current_data)
    /\ active_alerts # <<>>

============================================================================
